---- MODULE Spec2Model ----
(***************************************************************************)
(* A model of the game engine of src/src/PuyoPuyo.jsx: the grid, the       *)
(* falling two-cell piece, movement and rotation with wall kicks, cluster  *)
(* detection, the clear-and-gravity cascade at a lock, scoring, pause,     *)
(* game over and reset.                                                    *)
(*                                                                         *)
(* The board is scaled down (the source plays on 6 x 12 with 5 colors):    *)
(* COLS, ROWS and NumColors are bounds of the model.                       *)
(***************************************************************************)
EXTENDS Integers, Sequences, FiniteSets, TLC

\* ------------------------------------------------------------------ bounds
COLS == 3
ROWS == 3
NumColors == 2
\* lock events a behaviour of the game may contain
MaxLocks == 3
\* filled cells of the grids tryMove and tryRotate are tried on
MaxFilled == 2

\* ------------------------------------------------------------- program state
VARIABLES
  grid,          \* useState(emptyGrid): grid[y][x] = null | color index
  piece,         \* useState(spawnPiece): [x, y, orientation, colors]
  running,       \* useState(true)
  score,         \* useState(0)
  chains,        \* useState(0)
  softDrop,      \* useState(false)
  gameOver,      \* useState(false)
  locks,         \* number of lock events so far (capped by MaxLocks)
  g,             \* tick's local g: the grid the cascade loop works on
  totalCleared,  \* tick's local totalCleared
  chain,         \* tick's local chain
  pc,            \* position inside tick's cascade loop: "idle" | "loop" | "done"
  closure        \* grid, running, gameOver as captured by the handlers in place

vars == <<grid, piece, running, score, chains, softDrop, gameOver, locks,
          g, totalCleared, chain, pc, closure>>
session == <<grid, piece, running, score, chains, softDrop, gameOver, locks>>
locals == <<g, totalCleared, chain, pc>>

\* ------------------------------------------------------------- grid store
null == -1
\* the color indices with Math.round in randColor for Math.floor
ColorsRounded == 0 .. NumColors

Colors == 0 .. (NumColors - 1)
Cell == Colors \cup {null}
Xs == 0 .. (COLS - 1)
Ys == 0 .. (ROWS - 1)

emptyGrid == [y \in Ys |-> [x \in Xs |-> null]]

\* child relative offsets per orientation (0: up, 1: right, 2: down, 3: left)
CHILD_OFFSETS ==
  [o \in 0 .. 3 |->
     CASE o = 0 -> [x |-> 0, y |-> -1]
       [] o = 1 -> [x |-> 1, y |-> 0]
       [] o = 2 -> [x |-> 0, y |-> 1]
       [] o = 3 -> [x |-> -1, y |-> 0]]

inBounds(x, y) == x >= 0 /\ x < COLS /\ y >= 0 /\ y < ROWS

\* The value a failed evaluation leaves in place of a result: reading
\* grid[y][x] with y outside the rows is "undefined[x]", a TypeError.
TypeError == [error |-> "TypeError"]

\* canPlace's loop from cell i on: "true", "false", or "TypeError" when the
\* read of grid[y][x] is reached with y outside the rows of the grid.
RECURSIVE canPlaceFrom(_, _, _)
canPlaceFrom(gr, cells, i) ==
  IF i > Len(cells) THEN "true"
  ELSE LET x == cells[i].x
           y == cells[i].y
       IN IF ~inBounds(x, y) THEN "false"
          ELSE IF y \notin Ys THEN "TypeError"
          ELSE IF x \notin Xs THEN "false"     \* undefined !== null
          ELSE IF gr[y][x] # null THEN "false"
          ELSE canPlaceFrom(gr, cells, i + 1)

canPlace(gr, cells) == canPlaceFrom(gr, cells, 1)

getPieceCells(p) ==
  LET child == CHILD_OFFSETS[p.orientation]
  IN << [x |-> p.x, y |-> p.y, color |-> p.colors[1]],
        [x |-> p.x + child.x, y |-> p.y + child.y, color |-> p.colors[2]] >>

\* getPieceCells(p).map(({x, y}) => ({x, y}))
cellsXY(p) ==
  LET cs == getPieceCells(p)
  IN [i \in 1 .. Len(cs) |-> [x |-> cs[i].x, y |-> cs[i].y]]

RECURSIVE paintFrom(_, _, _)
paintFrom(gr, cells, i) ==
  IF i > Len(cells) THEN gr
  ELSE LET c == cells[i]
       IN IF inBounds(c.x, c.y)
          THEN paintFrom([gr EXCEPT ![c.y][c.x] = c.color], cells, i + 1)
          ELSE paintFrom(gr, cells, i + 1)

paintPieceOnto(gr, p) == paintFrom(gr, getPieceCells(p), 1)

spawnPiece(c1, c2) ==
  [x |-> COLS \div 2, y |-> 0, orientation |-> 2, colors |-> <<c1, c2>>]

\* ------------------------------------------------------------ findClusters
\* the neighbour offsets with "up" forgotten
dirsNoUp == << <<1, 0>>, <<-1, 0>>, <<0, 1>> >>

dirs == << <<1, 0>>, <<-1, 0>>, <<0, 1>>, <<0, -1>> >>

\* the for-loop over dirs for the popped cell (cx, cy); sv = [stack, visited]
RECURSIVE pushNeighbours(_, _, _, _, _, _)
pushNeighbours(gr, color, cx, cy, i, sv) ==
  IF i > Len(dirs) THEN sv
  ELSE LET nx == cx + dirs[i][1]
           ny == cy + dirs[i][2]
       IN IF inBounds(nx, ny) /\ <<nx, ny>> \notin sv.visited /\ gr[ny][nx] = color
          THEN pushNeighbours(gr, color, cx, cy, i + 1,
                 [stack |-> Append(sv.stack, <<nx, ny>>),
                  visited |-> sv.visited \cup {<<nx, ny>>}])
          ELSE pushNeighbours(gr, color, cx, cy, i + 1, sv)

\* the while (stack.length) loop; returns [cells, visited]
RECURSIVE floodFill(_, _, _, _, _)
floodFill(gr, color, stack, visited, cells) ==
  IF Len(stack) = 0 THEN [cells |-> cells, visited |-> visited]
  ELSE LET top == stack[Len(stack)]
           rest == SubSeq(stack, 1, Len(stack) - 1)
           sv == pushNeighbours(gr, color, top[1], top[2], 1,
                                [stack |-> rest, visited |-> visited])
       IN floodFill(gr, color, sv.stack, sv.visited, Append(cells, top))

\* the two nested for-loops, cell number k = y * COLS + x
RECURSIVE scanFrom(_, _, _, _)
scanFrom(gr, k, visited, clusters) ==
  IF k >= ROWS * COLS THEN clusters
  ELSE LET x == k % COLS
           y == k \div COLS
           color == gr[y][x]
       IN IF color = null \/ <<x, y>> \in visited
          THEN scanFrom(gr, k + 1, visited, clusters)
          ELSE LET r == floodFill(gr, color, << <<x, y>> >>,
                                  visited \cup {<<x, y>>}, <<>>)
               IN scanFrom(gr, k + 1, r.visited,
                           IF Len(r.cells) >= 4
                           THEN Append(clusters, [color |-> color, cells |-> r.cells])
                           ELSE clusters)

findClusters(gr) == scanFrom(gr, 0, {}, <<>>)

\* clearClusters writing g[x][y] for g[y][x]
clearClustersTransposed(gr, clusters) ==
  LET hit == {clusters[i].cells[j] : <<i, j>> \in
                {<<i, j>> \in (1 .. Len(clusters)) \X (1 .. ROWS * COLS) :
                   j <= Len(clusters[i].cells)}}
  IN [y \in Ys |-> [x \in Xs |->
        IF <<y, x>> \in hit /\ y \in Xs /\ x \in Ys THEN null ELSE gr[y][x]]]

clearClusters(gr, clusters) ==
  LET hit == {clusters[i].cells[j] : <<i, j>> \in
                {<<i, j>> \in (1 .. Len(clusters)) \X (1 .. ROWS * COLS) :
                   j <= Len(clusters[i].cells)}}
  IN [y \in Ys |-> [x \in Xs |-> IF <<x, y>> \in hit THEN null ELSE gr[y][x]]]

\* ------------------------------------------------------------ applyGravity
\* the inner loop running from the top row down while writing from the bottom up
RECURSIVE settleColumnTopDown(_, _, _)
settleColumnTopDown(col, y, write) ==
  LET yy == (ROWS - 1) - y
  IN IF y < 0 THEN col
     ELSE IF col[yy] # null /\ yy <= write
          THEN LET val == col[yy]
                   c1 == [col EXCEPT ![yy] = null]
                   c2 == [c1 EXCEPT ![write] = val]
               IN settleColumnTopDown(c2, y - 1, write - 1)
          ELSE settleColumnTopDown(col, y - 1, write)

\* the inner loop over y for one column, col[y] = g[y][x]
RECURSIVE settleColumn(_, _, _)
settleColumn(col, y, write) ==
  IF y < 0 THEN col
  ELSE IF col[y] # null
       THEN LET val == col[y]
                c1 == [col EXCEPT ![y] = null]
                c2 == [c1 EXCEPT ![write] = val]
            IN settleColumn(c2, y - 1, write - 1)
       ELSE settleColumn(col, y - 1, write)

\* gravity that lets every cell over an empty cell fall by one row only
applyGravityOneRow(gr) ==
  [y \in Ys |-> [x \in Xs |->
     IF gr[y][x] # null /\ y + 1 \in Ys /\ gr[y + 1][x] = null THEN null
     ELSE IF gr[y][x] = null /\ y - 1 \in Ys /\ gr[y - 1][x] # null THEN gr[y - 1][x]
     ELSE gr[y][x]]]

applyGravity(gr) ==
  LET settled == [x \in Xs |->
                    settleColumn([y \in Ys |-> gr[y][x]], ROWS - 1, ROWS - 1)]
  IN [y \in Ys |-> [x \in Xs |-> settled[x][y]]]

\* ------------------------------------------------- movement and rotation
\* tryMove with the companion cell left out of the legality test
tryMoveAnchorOnly(gr, p, dx, dy) ==
  LET np == [p EXCEPT !.x = p.x + dx, !.y = p.y + dy]
      ok == canPlace(gr, SubSeq(cellsXY(np), 1, 1))
  IN IF ok = "TypeError" THEN TypeError
     ELSE IF ok = "true" THEN np
     ELSE p

tryMove(gr, p, dx, dy) ==
  LET np == [p EXCEPT !.x = p.x + dx, !.y = p.y + dy]
      ok == canPlace(gr, cellsXY(np))
  IN IF ok = "TypeError" THEN TypeError
     ELSE IF ok = "true" THEN np
     ELSE p

\* the wall kicks tried right first
kicksRightFirst == <<1, -1, 2, -2>>

kicks == <<-1, 1, -2, 2>>

\* the wall kicks followed by a kick one row up
RECURSIVE kickFromThenUp(_, _, _, _)
kickFromThenUp(gr, p, next, i) ==
  IF i > Len(kicks)
  THEN LET up == [next EXCEPT !.y = next.y - 1]
       IN IF canPlace(gr, cellsXY(up)) = "true" THEN up ELSE p
  ELSE LET kicked == [next EXCEPT !.x = next.x + kicks[i]]
           ok == canPlace(gr, cellsXY(kicked))
       IN IF ok = "TypeError" THEN TypeError
          ELSE IF ok = "true" THEN kicked
          ELSE kickFromThenUp(gr, p, next, i + 1)

RECURSIVE kickFrom(_, _, _, _)
kickFrom(gr, p, next, i) ==
  IF i > Len(kicks) THEN p
  ELSE LET kicked == [next EXCEPT !.x = next.x + kicks[i]]
           ok == canPlace(gr, cellsXY(kicked))
       IN IF ok = "TypeError" THEN TypeError
          ELSE IF ok = "true" THEN kicked
          ELSE kickFrom(gr, p, next, i + 1)

\* a rotation that also swaps the two colors
tryRotateSwapping(gr, p, dir) ==
  LET next == [p EXCEPT !.orientation = (p.orientation + dir + 4) % 4,
                        !.colors = <<p.colors[2], p.colors[1]>>]
      ok == canPlace(gr, cellsXY(next))
  IN IF ok = "TypeError" THEN TypeError
     ELSE IF ok = "true" THEN next
     ELSE kickFrom(gr, p, next, 1)

tryRotate(gr, p, dir) ==
  LET next == [p EXCEPT !.orientation = (p.orientation + dir + 4) % 4]
      ok == canPlace(gr, cellsXY(next))
  IN IF ok = "TypeError" THEN TypeError
     ELSE IF ok = "true" THEN next
     ELSE kickFrom(gr, p, next, 1)

\* ------------------------------------------------------- the cascade loop
\* one pass of tick's while (true) body that finds clusters; s = [g, totalCleared, chain]
RECURSIVE sumCells(_, _)
sumCells(clusters, i) ==
  IF i > Len(clusters) THEN 0
  ELSE Len(clusters[i].cells) + sumCells(clusters, i + 1)

cascadePass(s) ==
  LET clusters == findClusters(s.g)
  IN [g |-> applyGravity(clearClusters(s.g, clusters)),
      totalCleared |-> s.totalCleared + sumCells(clusters, 1),
      chain |-> s.chain + 1]

RECURSIVE cascade(_)
cascade(s) ==
  IF Len(findClusters(s.g)) = 0 THEN s ELSE cascade(cascadePass(s))

\* --------------------------------------------------------------- the game
\* what the keyboard effect and the game loop effect close over
captured(gr, run, over) == [grid |-> gr, running |-> run, gameOver |-> over]

\* the two effects run again after a commit (deps [grid, running, gameOver]
\* and [grid, running, softDrop, gameOver]): the listeners and the interval
\* are replaced by ones that close over the committed values
effects == closure' = captured(grid', running', gameOver')

Init ==
  /\ grid = emptyGrid
  /\ \E c1 \in Colors, c2 \in Colors : piece = spawnPiece(c1, c2)
  /\ running = TRUE
  /\ score = 0
  /\ chains = 0
  /\ softDrop = FALSE
  /\ gameOver = FALSE
  /\ locks = 0
  /\ g = emptyGrid
  /\ totalCleared = 0
  /\ chain = 0
  /\ pc = "idle"
  /\ closure = captured(grid, running, gameOver)

\* the early return testing gameOver alone
keysIgnoredGameOverOnly == gameOver

\* onKey's first line: if (!running || gameOver) return;
keysIgnored == ~running \/ gameOver

\* the hard drop stopping after one row
dropOneRow(gr, cur) == tryMove(gr, cur, 0, 1)

\* the hard drop's while (true) loop
RECURSIVE dropFrom(_, _)
dropFrom(gr, cur) ==
  LET moved == tryMove(gr, cur, 0, 1)
  IN IF moved = cur THEN cur ELSE dropFrom(gr, moved)

\* onKey, e.key === "ArrowLeft"
MoveLeft ==
  /\ pc = "idle"
  /\ IF keysIgnored THEN UNCHANGED session
     ELSE /\ piece' = tryMove(grid, piece, -1, 0)
          /\ UNCHANGED <<grid, running, score, chains, softDrop, gameOver, locks>>
  /\ UNCHANGED locals
  /\ effects

\* onKey, e.key === "ArrowRight"
MoveRight ==
  /\ pc = "idle"
  /\ IF keysIgnored THEN UNCHANGED session
     ELSE /\ piece' = tryMove(grid, piece, 1, 0)
          /\ UNCHANGED <<grid, running, score, chains, softDrop, gameOver, locks>>
  /\ UNCHANGED locals
  /\ effects

\* onKey, e.key === "ArrowDown"
SoftDropOn ==
  /\ pc = "idle"
  /\ IF keysIgnored THEN UNCHANGED session
     ELSE /\ softDrop' = TRUE
          /\ UNCHANGED <<grid, piece, running, score, chains, gameOver, locks>>
  /\ UNCHANGED locals
  /\ effects

\* onKeyUp, e.key === "ArrowDown"
SoftDropOff ==
  /\ pc = "idle"
  /\ softDrop' = FALSE
  /\ UNCHANGED <<grid, piece, running, score, chains, gameOver, locks>>
  /\ UNCHANGED locals
  /\ effects

\* onKey, e.key === "ArrowUp" || e.key === "x"
RotateCW ==
  /\ pc = "idle"
  /\ IF keysIgnored THEN UNCHANGED session
     ELSE /\ piece' = tryRotate(grid, piece, 1)
          /\ UNCHANGED <<grid, running, score, chains, softDrop, gameOver, locks>>
  /\ UNCHANGED locals
  /\ effects

\* onKey, e.key === "z"
RotateCCW ==
  /\ pc = "idle"
  /\ IF keysIgnored THEN UNCHANGED session
     ELSE /\ piece' = tryRotate(grid, piece, -1)
          /\ UNCHANGED <<grid, running, score, chains, softDrop, gameOver, locks>>
  /\ UNCHANGED locals
  /\ effects

\* onKey, e.key === " "
HardDrop ==
  /\ pc = "idle"
  /\ IF keysIgnored THEN UNCHANGED session
     ELSE /\ piece' = dropFrom(grid, piece)
          /\ UNCHANGED <<grid, running, score, chains, softDrop, gameOver, locks>>
  /\ UNCHANGED locals
  /\ effects

\* onKey, e.key === "p"
TogglePause ==
  /\ pc = "idle"
  /\ IF keysIgnored THEN UNCHANGED session
     ELSE /\ running' = ~running
          /\ UNCHANGED <<grid, piece, score, chains, softDrop, gameOver, locks>>
  /\ UNCHANGED locals
  /\ effects

\* reset(): the six setters; softDrop is not among them
reset ==
  /\ grid' = emptyGrid
  /\ \E c1 \in Colors, c2 \in Colors : piece' = spawnPiece(c1, c2)
  /\ score' = 0
  /\ chains' = 0
  /\ gameOver' = FALSE
  /\ running' = TRUE
  /\ UNCHANGED <<softDrop, locks>>

\* onKey, e.key === "r"
ResetKey ==
  /\ pc = "idle"
  /\ IF keysIgnored THEN UNCHANGED session ELSE reset
  /\ UNCHANGED locals
  /\ effects

\* the button rendered only under {gameOver && ...}, onClick={reset}
ResetButton ==
  /\ pc = "idle"
  /\ gameOver
  /\ reset
  /\ UNCHANGED locals
  /\ effects

\* setScore((s) => s + totalCleared * 10 * chain) with the chain factor dropped
scoreUpdateNoChain(s, total, ch) ==
  IF ch > 0 THEN s + total * 10 ELSE s

\* if (chain > 0) setScore((s) => s + totalCleared * 10 * chain); else nothing
scoreUpdate(s, total, ch) ==
  IF ch > 0 THEN s + total * 10 * ch ELSE s

\* the spawn test looking at the anchor cell alone
spawnBlockedAnchorOnly(gr, next) ==
  canPlace(gr, SubSeq(cellsXY(next), 1, 1)) # "true"

\* !canPlace(g, cells) for the cells of the next piece
spawnBlocked(gr, next) ==
  canPlace(gr, cellsXY(next)) # "true"

\* the lock with the piece left unpainted
lockStartUnpainted(gr, p) ==
  [g |-> gr, totalCleared |-> 0, chain |-> 0]

\* let g = paintPieceOnto(grid, p); let totalCleared = 0; let chain = 0;
lockStart(gr, p) ==
  [g |-> paintPieceOnto(gr, p), totalCleared |-> 0, chain |-> 0]

\* the lock branch of tick's updater for the piece p (moved === p), gr the
\* grid tick closes over
lockPieceOn(gr) ==
  \E r \in {cascade(lockStart(gr, piece))} :
     /\ locks' = locks + 1
     /\ chains' = IF r.chain > 0 THEN r.chain ELSE 0
     /\ score' = scoreUpdate(score, r.totalCleared, r.chain)
     /\ grid' = r.g
     /\ \E c1 \in Colors, c2 \in Colors :
          LET next == spawnPiece(c1, c2)
          IN IF spawnBlocked(r.g, next)
             THEN /\ gameOver' = TRUE
                  /\ running' = FALSE
                  /\ piece' = piece
             ELSE /\ piece' = next
                  /\ UNCHANGED <<gameOver, running>>
     /\ UNCHANGED softDrop

lockPiece == lockPieceOn(grid)

\* the interval callback; the interval exists only while running && !gameOver
Tick ==
  /\ pc = "idle"
  /\ running /\ ~gameOver
  /\ LET moved == tryMove(grid, piece, 0, 1)
     IN IF moved = piece
        THEN locks < MaxLocks /\ lockPiece
        ELSE /\ piece' = moved
             /\ UNCHANGED <<grid, running, score, chains, softDrop, gameOver, locks>>
  /\ UNCHANGED locals
  /\ effects

Next ==
  \/ Tick
  \/ MoveLeft
  \/ MoveRight
  \/ SoftDropOn
  \/ SoftDropOff
  \/ RotateCW
  \/ RotateCCW
  \/ HardDrop
  \/ TogglePause
  \/ ResetKey
  \/ ResetButton

Spec == Init /\ [][Next]_vars

\* ------------------------- the handlers in place, with what they close over
\* An event can arrive after a tick has queued its updates and before the
\* effects have run again: the listener and the interval in place are then
\* still the ones created with the grid, running and gameOver of the render
\* before.
Keys == {"ArrowLeft", "ArrowRight", "ArrowDown", "ArrowUp", "x", "z", " ", "p", "r"}

\* the updater onKey hands to setPiece for key k; gr is the grid onKey closes over
pieceUpdater(k, gr, p) ==
  CASE k = "ArrowLeft" -> tryMove(gr, p, -1, 0)
    [] k = "ArrowRight" -> tryMove(gr, p, 1, 0)
    [] k \in {"ArrowUp", "x"} -> tryRotate(gr, p, 1)
    [] k = "z" -> tryRotate(gr, p, -1)
    [] k = " " -> dropFrom(gr, p)
    [] OTHER -> p

\* the keydown listener in place, for the key k
onKeyOf(k) ==
  /\ pc = "idle"
  /\ IF ~closure.running \/ closure.gameOver THEN UNCHANGED session
     ELSE IF k = "ArrowDown"
          THEN /\ softDrop' = TRUE
               /\ UNCHANGED <<grid, piece, running, score, chains, gameOver, locks>>
     ELSE IF k = "p"
          THEN /\ running' = ~running
               /\ UNCHANGED <<grid, piece, score, chains, softDrop, gameOver, locks>>
     ELSE IF k = "r" THEN reset
     ELSE /\ piece' = pieceUpdater(k, closure.grid, piece)
          /\ UNCHANGED <<grid, running, score, chains, softDrop, gameOver, locks>>
  /\ UNCHANGED <<locals, closure>>

onKey == \E k \in Keys : onKeyOf(k)

\* the keyup listener in place
onKeyUp ==
  /\ pc = "idle"
  /\ softDrop' = FALSE
  /\ UNCHANGED <<grid, piece, running, score, chains, gameOver, locks>>
  /\ UNCHANGED <<locals, closure>>

\* the interval callback in place: it exists if the game loop effect last ran
\* with running && !gameOver, and is cancelled when the effect runs again
tick ==
  /\ pc = "idle"
  /\ closure.running /\ ~closure.gameOver
  /\ LET moved == tryMove(closure.grid, piece, 0, 1)
     IN IF moved = piece
        THEN locks < MaxLocks /\ lockPieceOn(closure.grid)
        ELSE /\ piece' = moved
             /\ UNCHANGED <<grid, running, score, chains, softDrop, gameOver, locks>>
  /\ UNCHANGED <<locals, closure>>

\* the button of the render in place, shown under {gameOver && ...}
onClick ==
  /\ pc = "idle"
  /\ closure.gameOver
  /\ reset
  /\ UNCHANGED <<locals, closure>>

\* the effects run again: cleanup of the old listeners and interval, setup
\* of new ones closing over the committed grid, running and gameOver
runEffects ==
  /\ pc = "idle"
  /\ closure # captured(grid, running, gameOver)
  /\ closure' = captured(grid, running, gameOver)
  /\ UNCHANGED <<session, locals>>

NextClosure == onKey \/ onKeyUp \/ tick \/ onClick \/ runEffects

SpecClosure == Init /\ [][NextClosure]_vars

\* ---------------------------------------------- inputs of the bounded checks
filledCells(gr) == {c \in Xs \X Ys : gr[c[2]][c[1]] # null}
filled(gr) == Cardinality(filledCells(gr))

\* a column of locked cells, bottom first
Stacks == UNION {[1 .. h -> Colors] : h \in 0 .. ROWS}

gridOfStacks(st) ==
  [y \in Ys |-> [x \in Xs |->
     IF ROWS - y <= Len(st[x]) THEN st[x][ROWS - y] ELSE null]]

pieceFits(gr, p) == canPlace(gr, cellsXY(p)) = "true"

\* positions of a game in progress: every column a stack, nothing left to
\* clear, and the two spawn cells free
MidGameGrids ==
  {gr \in {gridOfStacks(st) : st \in [Xs -> Stacks]} :
     /\ Len(findClusters(gr)) = 0
     /\ pieceFits(gr, spawnPiece(0, 0))}

Pieces ==
  [x : Xs, y : Ys, orientation : 0 .. 3, colors : Colors \X Colors]

\* the pieces a tick locks: placed, and unable to move down
RestingPieces(gr) ==
  {p \in Pieces : pieceFits(gr, p) /\ tryMove(gr, p, 0, 1) = p}

\* grids with at most MaxFilled filled cells, anywhere
SparseGrids ==
  {[y \in Ys |-> [x \in Xs |-> IF <<x, y>> \in DOMAIN f THEN f[<<x, y>>] ELSE null]] :
     f \in UNION {[S -> Colors] : S \in {S \in SUBSET (Xs \X Ys) : Cardinality(S) <= MaxFilled}}}

Deltas == -1 .. 1

\* ------------------------------------------- tryMove and tryRotate, applied
InitResolver ==
  /\ grid \in SparseGrids
  /\ piece \in Pieces
  /\ running = TRUE
  /\ score = 0
  /\ chains = 0
  /\ softDrop = FALSE
  /\ gameOver = FALSE
  /\ locks = 0
  /\ g = emptyGrid
  /\ totalCleared = 0
  /\ chain = 0
  /\ pc = "idle"
  /\ closure = captured(grid, running, gameOver)

ApplyMove ==
  /\ \E dx \in Deltas, dy \in Deltas : piece' = tryMove(grid, piece, dx, dy)
  /\ UNCHANGED <<grid, running, score, chains, softDrop, gameOver, locks>>
  /\ UNCHANGED <<locals, closure>>

ApplyRotate ==
  /\ \E dir \in {1, -1} : piece' = tryRotate(grid, piece, dir)
  /\ UNCHANGED <<grid, running, score, chains, softDrop, gameOver, locks>>
  /\ UNCHANGED <<locals, closure>>

NextResolver == ApplyMove \/ ApplyRotate

SpecResolver == InitResolver /\ [][NextResolver]_vars

\* ------------------------------------------------ one lock, from mid-game
InitLock ==
  /\ grid \in MidGameGrids
  /\ piece \in RestingPieces(grid)
  /\ running = TRUE
  /\ score \in {0, 40}
  /\ chains = 0
  /\ softDrop = FALSE
  /\ gameOver = FALSE
  /\ locks = MaxLocks - 1
  /\ g = emptyGrid
  /\ totalCleared = 0
  /\ chain = 0
  /\ pc = "idle"
  /\ closure = captured(grid, running, gameOver)

NextLock == Tick

SpecLock == InitLock /\ [][NextLock]_vars

\* ------------------- the cascade loop, pass by pass, started on any grid
InitCascade ==
  /\ grid = emptyGrid
  /\ piece = spawnPiece(0, 0)
  /\ running = TRUE
  /\ score = 0
  /\ chains = 0
  /\ softDrop = FALSE
  /\ gameOver = FALSE
  /\ locks = 0
  /\ g = emptyGrid
  /\ totalCleared = 0
  /\ chain = 0
  /\ pc = "idle"
  /\ closure = captured(grid, running, gameOver)

\* let g = ...; let totalCleared = 0; let chain = 0; with g any grid
CascadeEnter ==
  /\ pc = "idle"
  /\ g' \in [Ys -> [Xs -> Cell]]
  /\ totalCleared' = 0
  /\ chain' = 0
  /\ pc' = "loop"
  /\ UNCHANGED <<session, closure>>

\* a pass that finds clusters: count, clear, gravity, and around again
CascadePass ==
  /\ pc = "loop"
  /\ Len(findClusters(g)) # 0
  /\ \E s \in {cascadePass([g |-> g, totalCleared |-> totalCleared, chain |-> chain])} :
        /\ g' = s.g
        /\ totalCleared' = s.totalCleared
        /\ chain' = s.chain
  /\ UNCHANGED pc
  /\ UNCHANGED <<session, closure>>

\* if (clusters.length === 0) break;
CascadeExit ==
  /\ pc = "loop"
  /\ Len(findClusters(g)) = 0
  /\ pc' = "done"
  /\ UNCHANGED <<g, totalCleared, chain>>
  /\ UNCHANGED <<session, closure>>

NextCascade == CascadeEnter \/ CascadePass \/ CascadeExit

SpecCascade == InitCascade /\ [][NextCascade]_vars

\* ----------------------------------------- applyGravity, applied to any grid
\* g = applyGravity(g)
GravityApply ==
  /\ pc \in {"loop", "settled"}
  /\ g' = applyGravity(g)
  /\ pc' = "settled"
  /\ UNCHANGED <<totalCleared, chain>>
  /\ UNCHANGED <<session, closure>>

NextGravity == CascadeEnter \/ GravityApply

SpecGravity == InitCascade /\ [][NextGravity]_vars

\* ------------------------------------------------ what the claims speak of
cellFree(gr, x, y) == x \in Xs /\ y \in Ys /\ gr[y][x] = null

companionX(p) ==
  p.x + (IF p.orientation = 1 THEN 1 ELSE IF p.orientation = 3 THEN -1 ELSE 0)

companionY(p) ==
  p.y + (IF p.orientation = 2 THEN 1 ELSE IF p.orientation = 0 THEN -1 ELSE 0)

\* both cells of p inside the grid and empty
legal(gr, p) ==
  cellFree(gr, p.x, p.y) /\ cellFree(gr, companionX(p), companionY(p))

placedAt(p, x, y, o) == [x |-> x, y |-> y, orientation |-> o, colors |-> p.colors]

\* C1: for every grid, piece and delta, tryMove returns the piece shifted by
\* exactly the delta (same orientation and colors) when both cells of the
\* shifted piece are inside the grid and empty, returns the piece itself in
\* every other case, and never fails with an error.
C1_TryMove ==
  \A dx \in Deltas, dy \in Deltas :
    LET r == tryMove(grid, piece, dx, dy)
        shifted == placedAt(piece, piece.x + dx, piece.y + dy, piece.orientation)
    IN /\ r # TypeError
       /\ IF legal(grid, shifted) THEN r = shifted ELSE r = piece

\* a piece over a filled cell of the left column: the move to the right is
\* made, the move down is refused by the floor or a cell, the move to the left
\* is refused by the wall
C1_Witness ==
  /\ piece.x = 0
  /\ grid[piece.y][piece.x] # null
  /\ tryMove(grid, piece, 1, 0) # piece
  /\ tryMove(grid, piece, 1, 0).x = 1
  /\ tryMove(grid, piece, 0, 1) = piece
  /\ tryMove(grid, piece, -1, 0) = piece

rotatedAt(p, dir, k) ==
  placedAt(p, p.x + k, p.y, (p.orientation + dir + 4) % 4)

\* C2: tryRotate turns the orientation to (orientation + dir + 4) mod 4 and
\* returns the turned piece at the unchanged anchor if that is legal, else at
\* the first of the anchors x-1, x+1, x-2, x+2 (in this order) that is legal,
\* else the piece itself, orientation included; row and colors never change.
C2_TryRotate ==
  \A dir \in {1, -1} :
    tryRotate(grid, piece, dir) =
      IF legal(grid, rotatedAt(piece, dir, 0)) THEN rotatedAt(piece, dir, 0)
      ELSE IF legal(grid, rotatedAt(piece, dir, -1)) THEN rotatedAt(piece, dir, -1)
      ELSE IF legal(grid, rotatedAt(piece, dir, 1)) THEN rotatedAt(piece, dir, 1)
      ELSE IF legal(grid, rotatedAt(piece, dir, -2)) THEN rotatedAt(piece, dir, -2)
      ELSE IF legal(grid, rotatedAt(piece, dir, 2)) THEN rotatedAt(piece, dir, 2)
      ELSE piece

\* at column 0, turned into "left": the wall refuses the turn in place and
\* the kick by -1, a filled cell refuses the kick by +1, and the piece goes
\* to column 2
C2_Witness ==
  /\ piece.x = 0
  /\ piece.orientation = 2
  /\ ~legal(grid, rotatedAt(piece, 1, 1))
  /\ tryRotate(grid, piece, 1).orientation = 3
  /\ tryRotate(grid, piece, 1).x = 2

\* the maximal 4-connected same-color region a filled cell lies in
adjacent(a, b) ==
  \/ a[1] = b[1] /\ (a[2] = b[2] + 1 \/ a[2] = b[2] - 1)
  \/ a[2] = b[2] /\ (a[1] = b[1] + 1 \/ a[1] = b[1] - 1)

RECURSIVE grow(_, _)
grow(gr, S) ==
  CHOOSE R \in {IF T = S THEN S ELSE grow(gr, T) :
                  T \in {S \cup {n \in filledCells(gr) :
                     \E c \in S : adjacent(n, c) /\ gr[n[2]][n[1]] = gr[c[2]][c[1]]}}} : TRUE

regionOf(gr, c) == grow(gr, {c})

regions(gr) == {regionOf(gr, c) : c \in filledCells(gr)}

bigRegions(gr) == {R \in regions(gr) : Cardinality(R) >= 4}

cellSet(cl) == {cl.cells[j] : j \in 1 .. Len(cl.cells)}

\* C3: findClusters reports exactly the maximal 4-connected same-color
\* regions of size >= 4 of the grid: every reported cluster has at least 4
\* cells, lists no cell twice, is a whole maximal region and carries its
\* color; every such region is reported exactly once; no cell lies in two
\* reported clusters.
C3_FindClusters ==
  LET cls == findClusters(g)
  IN /\ \A i \in 1 .. Len(cls) :
          /\ Len(cls[i].cells) >= 4
          /\ Cardinality(cellSet(cls[i])) = Len(cls[i].cells)
          /\ cellSet(cls[i]) \in regions(g)
          /\ \A c \in cellSet(cls[i]) : g[c[2]][c[1]] = cls[i].color
     /\ \A R \in bigRegions(g) :
          Cardinality({i \in 1 .. Len(cls) : cellSet(cls[i]) = R}) = 1
     /\ \A i \in 1 .. Len(cls), j \in 1 .. Len(cls) :
          i # j => cellSet(cls[i]) \cap cellSet(cls[j]) = {}

\* a grid on which findClusters reports a cluster that is not the whole
\* board's filled part: a region of fewer than 4 cells is left unreported
C3_Witness ==
  /\ pc = "loop"
  /\ Len(findClusters(g)) >= 1
  /\ \E R \in regions(g) : Cardinality(R) < 4
  /\ \E R \in regions(g) : Cardinality(R) > 4

\* C4: the cascade loop ends on every grid: it makes at most ROWS * COLS / 4
\* passes, because every pass that does not end the loop removes at least 4
\* filled cells; and the grid it leaves has no same-color 4-connected region
\* of 4 or more cells.
C4_ChainResolution ==
  /\ [](pc = "done" => bigRegions(g) = {})
  /\ [](4 * chain <= ROWS * COLS)
  /\ [][chain' # chain => filled(g') + 4 <= filled(g)]_vars

\* a loop that ended after two passes, 8 cells cleared
C4_Witness ==
  /\ pc = "done"
  /\ chain = 2
  /\ totalCleared = 8
  /\ filled(g) <= 1

\* ------------------------------------------ a lock, said without the code
\* the grid with the two cells of p written on it
painted(gr, p) ==
  [y \in Ys |-> [x \in Xs |->
     IF x = companionX(p) /\ y = companionY(p) THEN p.colors[2]
     ELSE IF x = p.x /\ y = p.y THEN p.colors[1]
     ELSE gr[y][x]]]

\* column x of gr with its filled cells slid to the bottom, order kept
fallen(gr) ==
  [y \in Ys |-> [x \in Xs |->
     LET rows == {r \in Ys : gr[r][x] # null}
         k == y - (ROWS - Cardinality(rows))
     IN IF k < 0 THEN null
        ELSE gr[CHOOSE r \in rows : Cardinality({q \in rows : q < r}) = k][x]]]

\* clear every region of 4 or more, let the rest fall, and again until no
\* such region is left: the grid left, the passes made, the cells cleared
RECURSIVE resolved(_)
resolved(gr) ==
  CHOOSE out \in
    {IF big = {} THEN [g |-> gr, chain |-> 0, cleared |-> 0]
     ELSE CHOOSE o \in
            {[g |-> r.g, chain |-> r.chain + 1, cleared |-> r.cleared + Cardinality(big)] :
               r \in {resolved(fallen([y \in Ys |-> [x \in Xs |->
                        IF <<x, y>> \in big THEN null ELSE gr[y][x]]]))}} : TRUE :
       big \in {UNION bigRegions(gr)}} : TRUE

spawnCellsFree(gr) == legal(gr, spawnPiece(0, 0))

isSpawned(p) ==
  /\ p.x = COLS \div 2
  /\ p.y = 0
  /\ p.orientation = 2
  /\ p.colors \in Colors \X Colors

lockStep == locks' # locks

\* C5: at every lock the score grows by exactly (cells cleared over all
\* passes) * 10 * (number of passes that cleared something), stays as it is
\* when no pass cleared anything, and the chain value becomes that number of
\* passes.
C5_LockScore ==
  [][lockStep =>
       \E r \in {resolved(painted(grid, piece))} :
          /\ score' = score + r.cleared * 10 * r.chain
          /\ chains' = r.chain
          /\ filled(painted(grid, piece)) - filled(grid') = r.cleared
          /\ (r.chain = 0 => score' = score)]_vars

\* after a lock that cleared 8 cells in two passes, from a score of 40
C5_Witness ==
  /\ locks = MaxLocks
  /\ chains = 2
  /\ score = 40 + 8 * 10 * 2

isResetStep ==
  /\ grid' = emptyGrid
  /\ isSpawned(piece')
  /\ score' = 0
  /\ chains' = 0
  /\ running'
  /\ ~gameOver'

paused == ~running /\ ~gameOver

C9_PauseResumes ==
  paused => ENABLED (TogglePause /\ running')

initialLike ==
  /\ grid = emptyGrid
  /\ isSpawned(piece)
  /\ score = 0
  /\ chains = 0
  /\ running
  /\ ~gameOver

\* C10: in every session state (running, paused or game over) a reset
\* command yields the initial state: empty grid, fresh piece at the spawn
\* position pointing down, score 0, chain 0, running, not game over.
C10_ResetAnywhere ==
  ENABLED ((ResetKey \/ ResetButton) /\ initialLike')

atRow(p, y) == placedAt(p, p.x, y, p.orientation)

isHardDrop == HardDrop /\ ~keysIgnored

C12_GravityIdempotent ==
  pc = "settled" => applyGravity(g) = g

\* a grid produced by applyGravity with a full column, a column of two and
\* an empty column
C12_Witness ==
  /\ pc = "settled"
  /\ \E x \in Xs : \A y \in Ys : g[y][x] # null
  /\ \E x \in Xs : g[ROWS - 1][x] # null /\ g[ROWS - 2][x] # null /\ g[0][x] = null
  /\ \E x \in Xs : g[ROWS - 1][x] = null

\* the colors of column x of gr from row y down, empty cells skipped
RECURSIVE colorsBelow(_, _, _)
colorsBelow(gr, x, y) ==
  IF y >= ROWS THEN <<>>
  ELSE (IF gr[y][x] # null THEN <<gr[y][x]>> ELSE <<>>) \o colorsBelow(gr, x, y + 1)

countIn(gr, x, c) == Cardinality({y \in Ys : gr[y][x] = c})

\* C13: every column of applyGravity(G) is empty cells on top followed by
\* exactly the non-empty cells of the same column of G, in their order from
\* top to bottom, down to the bottom row; each column keeps its number of
\* cells of every color.
C13_GravityColumns ==
  [][pc' = "settled" =>
       \A x \in Xs :
          LET kept == colorsBelow(g, x, 0)
              top == ROWS - Len(kept)
          IN /\ \A y \in Ys :
                  g'[y][x] = IF y < top THEN null ELSE kept[y - top + 1]
             /\ \A c \in Colors : countIn(g', x, c) = countIn(g, x, c)
    ]_vars

\* gravity has acted and left a column of two colors, one lying on the
\* other, under an empty cell
C13_Witness ==
  /\ pc = "settled"
  /\ \E x \in Xs :
       /\ g[0][x] = null
       /\ g[ROWS - 2][x] = 0
       /\ g[ROWS - 1][x] = 1

\* C14: while the session is not game over both cells of the current piece
\* are inside the columns of the grid, the companion cell is not above row 0,
\* both cells lie on empty cells of the grid, and the orientation is one of
\* 0, 1, 2, 3.
C14_PieceLegal ==
  ~gameOver =>
     /\ piece.x \in Xs
     /\ companionX(piece) \in Xs
     /\ companionY(piece) >= 0
     /\ legal(grid, piece)
     /\ piece.orientation \in 0 .. 3

\* C15: in every reachable state the grid has exactly ROWS rows of exactly
\* COLS cells, and every cell is empty or a color index from 0 to the size
\* of the palette minus 1.
C15_GridShape ==
  /\ DOMAIN grid = 0 .. (ROWS - 1)
  /\ \A y \in DOMAIN grid :
       /\ DOMAIN grid[y] = 0 .. (COLS - 1)
       /\ \A x \in DOMAIN grid[y] :
            grid[y][x] = null \/ grid[y][x] \in 0 .. (NumColors - 1)

\* a grid after the last lock the bound allows, with five or more cells of
\* both colors on it
C15_Witness ==
  /\ locks = MaxLocks
  /\ filled(grid) >= 5
  /\ \A c \in Colors : \E y \in Ys, x \in Xs : grid[y][x] = c

\* a step of moveLeft, moveRight, rotateCW, rotateCCW, hardDrop, softDropOn
\* or softDropOff
isCommand ==
  \/ MoveLeft \/ MoveRight \/ RotateCW \/ RotateCCW \/ HardDrop
  \/ SoftDropOn \/ SoftDropOff

\* C16: the move, rotate, hard drop and soft drop commands leave the grid,
\* the score, the chain value and the two colors of the piece as they are;
\* the grid changes only at a lock on a tick or at a reset; the colors of the
\* current piece change only when a lock or a reset replaces the piece by a
\* freshly spawned one.
C16_CommandFrame ==
  [][/\ isCommand =>
          /\ UNCHANGED <<grid, score, chains>>
          /\ piece'.colors = piece.colors
     /\ grid' # grid => (lockStep /\ Tick) \/ isResetStep
     /\ piece'.colors # piece.colors =>
          /\ lockStep \/ isResetStep
          /\ isSpawned(piece')
    ]_vars

\* a running session with cells on the grid and a score, whose two-colored
\* piece has been moved off the spawn column and turned
C16_Witness ==
  /\ ~gameOver /\ running
  /\ filled(grid) > 0
  /\ score > 0
  /\ piece.colors[1] # piece.colors[2]
  /\ piece.x # COLS \div 2
  /\ piece.orientation = 0

\* a step of the keydown listener that hands an updater to setPiece
isPieceKey == \E k \in Keys \ {"ArrowDown", "p", "r"} : onKeyOf(k)

\* C17: ticks and commands are applied one at a time to the session state
\* itself: whenever an updater of a key handler or of the tick moves or
\* locks the piece, the grid it has tested the piece against is the current
\* grid of the session, not one captured before the last lock; so the piece
\* of a session that is not game over never lies on a filled cell, and no
\* lock is made in a session that is already game over.
C17_Serialized ==
  /\ [][(isPieceKey \/ tick) /\ (piece' # piece \/ lockStep)
          => closure.grid = grid]_vars
  /\ [](~gameOver => legal(grid, piece))
  /\ [][lockStep => ~gameOver]_vars

\* C18: in every reachable state the grid is settled under gravity: every
\* filled cell lies in the bottom row or on a filled cell.
C18_Settled ==
  \A x \in Xs, y \in Ys :
     grid[y][x] # null /\ y < ROWS - 1 => grid[y + 1][x] # null

\* a step that replaces the piece: a lock, or a reset that is carried out
pieceReplaced == lockStep \/ ((ResetKey \/ ResetButton) /\ isResetStep)

\* C19: while a piece lives its anchor row never decreases, whatever command
\* is handled; a tick of a running session either raises the anchor row by
\* exactly 1, column and orientation kept, or locks the piece; a piece starts
\* at row 0 and its anchor row never exceeds ROWS - 1. Hence at most
\* ROWS - 1 ticks can move a piece, and the tick after them locks it: a piece
\* is locked within ROWS ticks of its spawn.
C19_AnchorRow ==
  /\ [](piece.y \in 0 .. (ROWS - 1))
  /\ [][/\ ~pieceReplaced => piece'.y >= piece.y
        /\ Tick => \/ lockStep
                   \/ piece' = atRow(piece, piece.y + 1)
        /\ pieceReplaced /\ ~gameOver' => piece'.y = 0
       ]_vars

\* a piece lying flat on the bottom row after a lock, the session running:
\* no tick can move it further
C19_Witness ==
  /\ running /\ ~gameOver
  /\ locks >= 1
  /\ piece.y = ROWS - 1
  /\ piece.orientation \in {1, 3}
  /\ filled(grid) > 0

countOf(gr, c) == Cardinality({k \in Xs \X Ys : gr[k[2]][k[1]] = c})

pieceCellsOf(p, c) ==
  (IF p.colors[1] = c THEN 1 ELSE 0) + (IF p.colors[2] = c THEN 1 ELSE 0)

\* the cells a lock has cleared, read off the score it has added
clearedBy(ds, ch) == IF ch = 0 THEN 0 ELSE ds \div (10 * ch)

\* C20: across a lock the number of filled cells of the grid grows by the 2
\* cells of the piece and shrinks by the cells cleared, of which there are at
\* least 4 for every pass of the chain; and for every color the grid holds
\* after the lock at most the cells it held before plus the cells of that
\* color of the piece.
C20_CellsConserved ==
  [][lockStep =>
       LET cleared == clearedBy(score' - score, chains')
       IN /\ score' - score = cleared * 10 * chains'
          /\ filled(grid') = filled(grid) + 2 - cleared
          /\ cleared >= 4 * chains'
          /\ \A c \in Colors :
               countOf(grid', c) <= countOf(grid, c) + pieceCellsOf(piece, c)
    ]_vars

====
